---- MODULE Spec2Model ----
(***************************************************************************)
(* The Address family of capa/features/address.py as a state machine.     *)
(*                                                                         *)
(* heap  : the objects constructed so far, in construction order.  The     *)
(*         position of an object is its identity; heap[1] is the module    *)
(*         level NO_ADDRESS.  A ThreadAddress stores the position of its   *)
(*         ProcessAddress (a reference, not a copy).                       *)
(* last  : the most recent call, [op, args, res].                          *)
(*                                                                         *)
(* Python values that never live on the heap here (plain ints, bools,      *)
(* strings, hash values) are tagged records; an exception is the result    *)
(* [t |-> "raise", exc |-> name].  Assertions are enabled (no -O).         *)
(***************************************************************************)
EXTENDS Integers, Sequences, FiniteSets, TLC

VARIABLES heap, last

vars == <<heap, last>>

(* ---- bounds ---------------------------------------------------------- *)
MaxVal == 1
MaxObjects == 2
MaxSame == 4

Vals == -1 .. MaxVal
PidVals == -1 .. (MaxVal + 1)

(* ---- classes ----------------------------------------------------------- *)
IntBacked == {"AbsoluteVirtualAddress", "RelativeVirtualAddress",
              "FileOffsetAddress", "DNTokenAddress"}
TupleBacked == {"ProcessAddress", "ThreadAddress", "DynamicAddress",
                "DNTokenOffsetAddress"}
Variants == IntBacked \cup TupleBacked

\* _NoAddress(): an instance without fields
NoAddress_new == [cls |-> "_NoAddress"]

(* ---- Python values ---------------------------------------------------- *)
Bool(v) == [t |-> "bool", b |-> v]
IntR(n) == [t |-> "int", n |-> n]
StrR(s) == [t |-> "str", s |-> s]
Raise(e) == [t |-> "raise", exc |-> e]
NotImplemented == [t |-> "NotImplemented"]
Raised(r) == "t" \in DOMAIN r /\ r.t = "raise"
TupleHash(lanes) == [t |-> "tuplehash", lanes |-> lanes]

\* operands of a call: a reference to a heap object, or a plain int
Ref(i) == [tag |-> "ref", at |-> i]
Num(n) == [tag |-> "int", value |-> n]

NO_ADDRESS == Ref(1)

Deref(h, x) == IF x.tag = "ref" THEN h[x.at] ELSE [cls |-> "int", value |-> x.value]

IsInt(o) == o.cls \in IntBacked \cup {"int"}

\* the first attribute of attrs (in evaluation order) that o lacks, or 0
Missing(o, attrs) ==
    LET bad == {i \in 1..Len(attrs) : attrs[i] \notin DOMAIN o}
    IN IF bad = {} THEN 0 ELSE CHOOSE i \in bad : \A j \in bad : i <= j

(* ---- formatting ------------------------------------------------------- *)
Digits == <<"0", "1", "2", "3", "4", "5", "6", "7", "8", "9",
            "a", "b", "c", "d", "e", "f">>

RECURSIVE NatStr(_, _)
NatStr(n, base) ==
    IF n < base THEN Digits[n + 1]
    ELSE NatStr(n \div base, base) \o Digits[(n % base) + 1]

\* format(n, "x") and str(n)
Hex(n) == IF n < 0 THEN "-" \o NatStr(-n, 16) ELSE NatStr(n, 16)
Dec(n) == IF n < 0 THEN "-" \o NatStr(-n, 10) ELSE NatStr(n, 10)

(* ---- int, the base of the integer-backed variants --------------------- *)
int_eq(self, other) ==
    IF IsInt(other) THEN Bool(self.value = other.value) ELSE NotImplemented

int_lt(self, other) ==
    IF IsInt(other) THEN Bool(self.value < other.value) ELSE NotImplemented

int_gt(self, other) ==
    IF IsInt(other) THEN Bool(self.value > other.value) ELSE NotImplemented

\* int.__hash__ for |n| < 2^61 - 1: the value itself, except that -1 is
\* reserved and hashes to -2
int_hash(self) == IntR(IF self.value = -1 THEN -2 ELSE self.value)

int_index(self) == IntR(self.value)

(* ---- comparison of operands and of tuples ----------------------------- *)
RECURSIVE eq_method(_, _, _), lt_method(_, _, _), RichCompare(_, _, _, _),
          hash_method(_, _)

\* PyObject_RichCompareBool(x, y, Py_EQ): identical objects are equal
RichCompareBool(h, x, y) ==
    IF x = y THEN Bool(TRUE) ELSE RichCompare(h, x, y, "==")

\* the outcome of comparing tuples s and t, eqs[i] being s[i] == t[i]: the
\* first pair that is not equal decides, else the lengths do
TupleDecide(h, s, t, op, eqs) ==
    LET diff == {i \in DOMAIN eqs : eqs[i] # Bool(TRUE)}
    IN IF diff = {}
       THEN IF op = "==" THEN Bool(Len(s) = Len(t)) ELSE Bool(Len(s) < Len(t))
       ELSE LET i == CHOOSE k \in diff : \A j \in diff : k <= j
            IN IF eqs[i].t = "raise" THEN eqs[i]
               ELSE IF op = "==" THEN Bool(FALSE)
               ELSE RichCompare(h, s[i], t[i], "<")

\* s == t and s < t for tuples s, t of operands
TupleCompare(h, s, t, op) ==
    TupleDecide(h, s, t, op,
                [i \in 1..(IF Len(s) < Len(t) THEN Len(s) ELSE Len(t)) |->
                     RichCompareBool(h, s[i], t[i])])

(* ---- ProcessAddress --------------------------------------------------- *)
\* variant: pid 0 admitted
ProcessAddress_init_allow_zero(pid, ppid) ==
    IF ~(ppid >= 0) THEN Raise("AssertionError")
    ELSE IF ~(pid >= 0) THEN Raise("AssertionError")
    ELSE [cls |-> "ProcessAddress", pid |-> pid, ppid |-> ppid]

ProcessAddress_init(pid, ppid) ==
    IF ~(ppid >= 0) THEN Raise("AssertionError")
    ELSE IF ~(pid > 0) THEN Raise("AssertionError")
    ELSE [cls |-> "ProcessAddress", pid |-> pid, ppid |-> ppid]

ProcessAddress_repr(self) ==
    StrR("process(" \o (IF self.ppid > 0 THEN "ppid: " \o Dec(self.ppid) \o ", " ELSE "")
         \o "pid: " \o Dec(self.pid) \o ")")

ProcessAddress_hash(h, self) ==
    TupleHash([i \in 1..2 |-> hash_method(h, <<Num(self.ppid), Num(self.pid)>>[i])])

ProcessAddress_eq(h, self, other) ==
    IF other.cls # "ProcessAddress" THEN Raise("AssertionError")
    ELSE TupleCompare(h, <<Num(self.ppid), Num(self.pid)>>,
                         <<Num(other.ppid), Num(other.pid)>>, "==")

\* variant: the tuple taken as (pid, ppid)
ProcessAddress_lt_pid_first(h, self, other) ==
    IF Missing(other, <<"ppid", "pid">>) # 0 THEN Raise("AttributeError")
    ELSE TupleCompare(h, <<Num(self.pid), Num(self.ppid)>>,
                         <<Num(other.pid), Num(other.ppid)>>, "<")

ProcessAddress_lt(h, self, other) ==
    IF Missing(other, <<"ppid", "pid">>) # 0 THEN Raise("AttributeError")
    ELSE TupleCompare(h, <<Num(self.ppid), Num(self.pid)>>,
                         <<Num(other.ppid), Num(other.pid)>>, "<")

(* ---- ThreadAddress ---------------------------------------------------- *)
ThreadAddress_init(process, tid) ==
    IF ~(tid >= 0) THEN Raise("AssertionError")
    ELSE [cls |-> "ThreadAddress", process |-> process, tid |-> tid]

ThreadAddress_repr(self) == StrR("thread(tid: " \o Dec(self.tid) \o ")")

\* variant: the process hashed by identity
ThreadAddress_hash_by_identity(h, self) ==
    TupleHash(<<IntR(self.process), hash_method(h, Num(self.tid))>>)

ThreadAddress_hash(h, self) ==
    TupleHash([i \in 1..2 |-> hash_method(h, <<Ref(self.process), Num(self.tid)>>[i])])

ThreadAddress_eq(h, self, other) ==
    IF other.cls # "ThreadAddress" THEN Raise("AssertionError")
    ELSE TupleCompare(h, <<Ref(self.process), Num(self.tid)>>,
                         <<Ref(other.process), Num(other.tid)>>, "==")

ThreadAddress_lt(h, self, other) ==
    IF Missing(other, <<"process", "tid">>) # 0 THEN Raise("AttributeError")
    ELSE TupleCompare(h, <<Ref(self.process), Num(self.tid)>>,
                         <<Ref(other.process), Num(other.tid)>>, "<")

(* ---- DynamicAddress --------------------------------------------------- *)
DynamicAddress_init(id_, return_address) ==
    IF ~(id_ >= 0) THEN Raise("AssertionError")
    ELSE IF ~(return_address >= 0) THEN Raise("AssertionError")
    ELSE [cls |-> "DynamicAddress", return_address |-> return_address, id |-> id_]

DynamicAddress_repr(self) ==
    StrR("dynamic(event: " \o Dec(self.id) \o ", returnaddress: 0x"
         \o Hex(self.return_address) \o ")")

DynamicAddress_hash(h, self) ==
    TupleHash([i \in 1..2 |-> hash_method(h, <<Num(self.id), Num(self.return_address)>>[i])])

DynamicAddress_eq(h, self, other) ==
    IF Missing(other, <<"id", "return_address">>) # 0 THEN Raise("AttributeError")
    ELSE TupleCompare(h, <<Num(self.id), Num(self.return_address)>>,
                         <<Num(other.id), Num(other.return_address)>>, "==")

DynamicAddress_lt(h, self, other) ==
    IF Missing(other, <<"id", "return_address">>) # 0 THEN Raise("AttributeError")
    ELSE TupleCompare(h, <<Num(self.id), Num(self.return_address)>>,
                         <<Num(other.id), Num(other.return_address)>>, "<")

(* ---- DNTokenOffsetAddress --------------------------------------------- *)
DNTokenOffsetAddress_init(token, offset) ==
    IF ~(offset >= 0) THEN Raise("AssertionError")
    ELSE [cls |-> "DNTokenOffsetAddress", token |-> token, offset |-> offset]

DNTokenOffsetAddress_eq(h, self, other) ==
    IF Missing(other, <<"token", "offset">>) # 0 THEN Raise("AttributeError")
    ELSE TupleCompare(h, <<Num(self.token), Num(self.offset)>>,
                         <<Num(other.token), Num(other.offset)>>, "==")

DNTokenOffsetAddress_lt(h, self, other) ==
    IF Missing(other, <<"token", "offset">>) # 0 THEN Raise("AttributeError")
    ELSE TupleCompare(h, <<Num(self.token), Num(self.offset)>>,
                         <<Num(other.token), Num(other.offset)>>, "<")

DNTokenOffsetAddress_hash(h, self) ==
    TupleHash([i \in 1..2 |-> hash_method(h, <<Num(self.token), Num(self.offset)>>[i])])

DNTokenOffsetAddress_repr(self) ==
    StrR("token(0x" \o Hex(self.token) \o ")+(0x" \o Hex(self.offset) \o ")")

\* variant: the offset left out
DNTokenOffsetAddress_index_token_only(self) == IntR(self.token)

DNTokenOffsetAddress_index(self) == IntR(self.token + self.offset)

(* ---- the integer-backed variants -------------------------------------- *)
AbsoluteVirtualAddress_new(v) ==
    IF ~(v >= 0) THEN Raise("AssertionError")
    ELSE [cls |-> "AbsoluteVirtualAddress", value |-> v]

AbsoluteVirtualAddress_repr(self) == StrR("absolute(0x" \o Hex(self.value) \o ")")

\* variant: the hash of a one-element tuple holding the value
AbsoluteVirtualAddress_hash_tagged(self) == TupleHash(<<int_hash(self)>>)

AbsoluteVirtualAddress_hash(self) == int_hash(self)

RelativeVirtualAddress_new(v) == [cls |-> "RelativeVirtualAddress", value |-> v]

RelativeVirtualAddress_repr(self) == StrR("relative(0x" \o Hex(self.value) \o ")")

RelativeVirtualAddress_hash(self) == int_hash(self)

FileOffsetAddress_new(v) ==
    IF ~(v >= 0) THEN Raise("AssertionError")
    ELSE [cls |-> "FileOffsetAddress", value |-> v]

FileOffsetAddress_repr(self) == StrR("file(0x" \o Hex(self.value) \o ")")

FileOffsetAddress_hash(self) == int_hash(self)

DNTokenAddress_new(token) == [cls |-> "DNTokenAddress", value |-> token]

DNTokenAddress_repr(self) == StrR("token(0x" \o Hex(self.value) \o ")")

DNTokenAddress_hash(self) == int_hash(self)

(* ---- _NoAddress ------------------------------------------------------- *)
\* variant: equal to the sentinel only
NoAddress_eq_same_class(self, other) == Bool(other.cls = "_NoAddress")

NoAddress_eq(self, other) == Bool(TRUE)

NoAddress_lt(self, other) == Bool(FALSE)

NoAddress_hash(h, self) == hash_method(h, Num(0))

NoAddress_repr(self) == StrR("no address")

(* ---- method resolution and operator dispatch -------------------------- *)
\* type(x).__eq__(x, y)
eq_method(h, x, y) ==
    LET self == Deref(h, x)
        other == Deref(h, y)
    IN CASE IsInt(self) -> int_eq(self, other)
         [] self.cls = "ProcessAddress" -> ProcessAddress_eq(h, self, other)
         [] self.cls = "ThreadAddress" -> ThreadAddress_eq(h, self, other)
         [] self.cls = "DynamicAddress" -> DynamicAddress_eq(h, self, other)
         [] self.cls = "DNTokenOffsetAddress" -> DNTokenOffsetAddress_eq(h, self, other)
         [] self.cls = "_NoAddress" -> NoAddress_eq(self, other)

\* type(x).__lt__(x, y)
lt_method(h, x, y) ==
    LET self == Deref(h, x)
        other == Deref(h, y)
    IN CASE IsInt(self) -> int_lt(self, other)
         [] self.cls = "ProcessAddress" -> ProcessAddress_lt(h, self, other)
         [] self.cls = "ThreadAddress" -> ThreadAddress_lt(h, self, other)
         [] self.cls = "DynamicAddress" -> DynamicAddress_lt(h, self, other)
         [] self.cls = "DNTokenOffsetAddress" -> DNTokenOffsetAddress_lt(h, self, other)
         [] self.cls = "_NoAddress" -> NoAddress_lt(self, other)

\* type(x).__gt__(x, y): only int defines it, the other classes inherit
\* object's, which declines
gt_method(h, x, y) ==
    LET self == Deref(h, x)
        other == Deref(h, y)
    IN IF IsInt(self) THEN int_gt(self, other) ELSE NotImplemented

\* the first of the candidate results that is not NotImplemented
FirstDecided(first, second, fallback) ==
    IF first # NotImplemented THEN first
    ELSE IF second # NotImplemented THEN second
    ELSE fallback

\* x == y and x < y: the left operand's method, then the reflected one (the
\* reflected one first when the right operand's type is a proper subclass
\* of the left's); == falls back to identity, < to TypeError
RichCompare(h, x, y, op) ==
    LET forward == IF op = "==" THEN eq_method(h, x, y) ELSE lt_method(h, x, y)
        reflected == IF op = "==" THEN eq_method(h, y, x) ELSE gt_method(h, y, x)
        fallback == IF op = "==" THEN Bool(x.tag = "ref" /\ x = y)
                    ELSE Raise("TypeError")
    IN IF Deref(h, x).cls = "int" /\ Deref(h, y).cls \in IntBacked
       THEN FirstDecided(reflected, forward, fallback)
       ELSE FirstDecided(forward, reflected, fallback)

\* hash(x)
hash_method(h, x) ==
    LET self == Deref(h, x)
    IN CASE self.cls = "int" -> int_hash(self)
         [] self.cls = "AbsoluteVirtualAddress" -> AbsoluteVirtualAddress_hash(self)
         [] self.cls = "RelativeVirtualAddress" -> RelativeVirtualAddress_hash(self)
         [] self.cls = "FileOffsetAddress" -> FileOffsetAddress_hash(self)
         [] self.cls = "DNTokenAddress" -> DNTokenAddress_hash(self)
         [] self.cls = "ProcessAddress" -> ProcessAddress_hash(h, self)
         [] self.cls = "ThreadAddress" -> ThreadAddress_hash(h, self)
         [] self.cls = "DynamicAddress" -> DynamicAddress_hash(h, self)
         [] self.cls = "DNTokenOffsetAddress" -> DNTokenOffsetAddress_hash(h, self)
         [] self.cls = "_NoAddress" -> NoAddress_hash(h, self)

\* repr(x)
repr_method(h, x) ==
    LET self == Deref(h, x)
    IN CASE self.cls = "int" -> StrR(Dec(self.value))
         [] self.cls = "AbsoluteVirtualAddress" -> AbsoluteVirtualAddress_repr(self)
         [] self.cls = "RelativeVirtualAddress" -> RelativeVirtualAddress_repr(self)
         [] self.cls = "FileOffsetAddress" -> FileOffsetAddress_repr(self)
         [] self.cls = "DNTokenAddress" -> DNTokenAddress_repr(self)
         [] self.cls = "ProcessAddress" -> ProcessAddress_repr(self)
         [] self.cls = "ThreadAddress" -> ThreadAddress_repr(self)
         [] self.cls = "DynamicAddress" -> DynamicAddress_repr(self)
         [] self.cls = "DNTokenOffsetAddress" -> DNTokenOffsetAddress_repr(self)
         [] self.cls = "_NoAddress" -> NoAddress_repr(self)

\* operator.index(x): __index__ of DNTokenOffsetAddress and of int
index_method(h, x) ==
    LET self == Deref(h, x)
    IN CASE self.cls = "DNTokenOffsetAddress" -> DNTokenOffsetAddress_index(self)
         [] IsInt(self) -> int_index(self)
         [] OTHER -> Raise("TypeError")

\* the result of the call op(args), for comparing a recorded result with
\* the result the same call has now
Apply(h, op, args) ==
    CASE op = "==" -> RichCompare(h, args[1], args[2], "==")
      [] op = "<" -> RichCompare(h, args[1], args[2], "<")
      [] op = "__eq__" -> eq_method(h, args[1], args[2])
      [] op = "hash" -> hash_method(h, args[1])
      [] op = "repr" -> repr_method(h, args[1])
      [] op = "index" -> index_method(h, args[1])

\* variant: rendering a ProcessAddress clears its ppid
after_call_clearing_ppid(h, op, args) ==
    IF op = "repr" /\ Deref(h, args[1]).cls = "ProcessAddress"
    THEN [h EXCEPT ![args[1].at].ppid = 0]
    ELSE h

\* the heap after the call op(args): no method assigns to a field
after_call(h, op, args) == h

ReadOps == {"==", "<", "__eq__", "hash", "repr", "index"}

(* ---- state machine ---------------------------------------------------- *)
Objects(h) == {Ref(i) : i \in 1..Len(h)}
Operands(h) == Objects(h) \cup {Num(n) : n \in Vals}
Processes(h) == {i \in 1..Len(h) : h[i].cls = "ProcessAddress"}

\* module import: NO_ADDRESS = _NoAddress()
Init ==
    /\ heap = <<NoAddress_new>>
    /\ last = [op |-> "_NoAddress", args |-> <<>>, res |-> NO_ADDRESS]

\* a constructor call whose __new__/__init__ gave r: an exception leaves
\* no object, otherwise the new object joins the heap
Construct(op, args, r, cap) ==
    /\ Len(heap) <= cap
    /\ IF Raised(r)
       THEN /\ heap' = heap
            /\ last' = [op |-> op, args |-> args, res |-> r]
       ELSE /\ heap' = Append(heap, r)
            /\ last' = [op |-> op, args |-> args, res |-> Ref(Len(heap) + 1)]

New(cls, args) ==
    CASE cls = "AbsoluteVirtualAddress" -> AbsoluteVirtualAddress_new(args[1])
      [] cls = "RelativeVirtualAddress" -> RelativeVirtualAddress_new(args[1])
      [] cls = "FileOffsetAddress" -> FileOffsetAddress_new(args[1])
      [] cls = "DNTokenAddress" -> DNTokenAddress_new(args[1])
      [] cls = "ProcessAddress" -> ProcessAddress_init(args[1], args[2])
      [] cls = "ThreadAddress" -> ThreadAddress_init(args[1], args[2])
      [] cls = "DynamicAddress" -> DynamicAddress_init(args[1], args[2])
      [] cls = "DNTokenOffsetAddress" -> DNTokenOffsetAddress_init(args[1], args[2])

\* the argument tuples a constructor is called with; the process of a
\* ThreadAddress is a ProcessAddress, as its signature declares
Args(h, cls) ==
    CASE cls \in IntBacked -> {<<v>> : v \in Vals}
      [] cls = "ProcessAddress" -> PidVals \X Vals
      [] cls = "ThreadAddress" -> Processes(h) \X Vals
      [] OTHER -> Vals \X Vals

NewAbsoluteVirtualAddress ==
    \E a \in Args(heap, "AbsoluteVirtualAddress") :
        Construct("AbsoluteVirtualAddress", a, New("AbsoluteVirtualAddress", a), MaxObjects)

NewRelativeVirtualAddress ==
    \E a \in Args(heap, "RelativeVirtualAddress") :
        Construct("RelativeVirtualAddress", a, New("RelativeVirtualAddress", a), MaxObjects)

NewFileOffsetAddress ==
    \E a \in Args(heap, "FileOffsetAddress") :
        Construct("FileOffsetAddress", a, New("FileOffsetAddress", a), MaxObjects)

NewDNTokenAddress ==
    \E a \in Args(heap, "DNTokenAddress") :
        Construct("DNTokenAddress", a, New("DNTokenAddress", a), MaxObjects)

NewProcessAddress ==
    \E a \in Args(heap, "ProcessAddress") :
        Construct("ProcessAddress", a, New("ProcessAddress", a), MaxObjects)

NewThreadAddress ==
    \E a \in Args(heap, "ThreadAddress") :
        Construct("ThreadAddress", a, New("ThreadAddress", a), MaxObjects)

NewDynamicAddress ==
    \E a \in Args(heap, "DynamicAddress") :
        Construct("DynamicAddress", a, New("DynamicAddress", a), MaxObjects)

NewDNTokenOffsetAddress ==
    \E a \in Args(heap, "DNTokenOffsetAddress") :
        Construct("DNTokenOffsetAddress", a, New("DNTokenOffsetAddress", a), MaxObjects)

\* a reader calls op on operands it holds
Call(op, args, res) ==
    /\ last' = [op |-> op, args |-> args, res |-> res]
    /\ heap' = after_call(heap, op, args)

Equals == \E x, y \in Operands(heap) : Call("==", <<x, y>>, RichCompare(heap, x, y, "=="))

LessThan == \E x, y \in Operands(heap) : Call("<", <<x, y>>, RichCompare(heap, x, y, "<"))

OwnEq == \E x, y \in Objects(heap) : Call("__eq__", <<x, y>>, eq_method(heap, x, y))

Hash == \E x \in Operands(heap) : Call("hash", <<x>>, hash_method(heap, x))

Repr == \E x \in Objects(heap) : Call("repr", <<x>>, repr_method(heap, x))

Index == \E x \in Objects(heap) : Call("index", <<x>>, index_method(heap, x))

Next ==
    \/ NewAbsoluteVirtualAddress
    \/ NewRelativeVirtualAddress
    \/ NewFileOffsetAddress
    \/ NewDNTokenAddress
    \/ NewProcessAddress
    \/ NewThreadAddress
    \/ NewDynamicAddress
    \/ NewDNTokenOffsetAddress
    \/ Equals
    \/ LessThan
    \/ OwnEq
    \/ Hash
    \/ Repr
    \/ Index

Spec == Init /\ [][Next]_vars

(* ---- same-variant populations ----------------------------------------- *)
\* ThreadAddress values need their ProcessAddress on the heap
Family(cls) == IF cls = "ProcessAddress" THEN "ThreadAddress" ELSE cls

SameFamily(h, cls) == \A i \in 2..Len(h) : Family(h[i].cls) = Family(cls)

NewSameVariant ==
    \E cls \in Variants :
        /\ SameFamily(heap, cls)
        /\ \E a \in Args(heap, cls) : Construct(cls, a, New(cls, a), MaxSame)

\* reads among the constructed addresses
EqualsSame ==
    \E x, y \in Objects(heap) \ {NO_ADDRESS} : Call("==", <<x, y>>, RichCompare(heap, x, y, "=="))

LessThanSame ==
    \E x, y \in Objects(heap) \ {NO_ADDRESS} : Call("<", <<x, y>>, RichCompare(heap, x, y, "<"))

HashSame ==
    \E x \in Objects(heap) \ {NO_ADDRESS} : Call("hash", <<x>>, hash_method(heap, x))

NextSame ==
    \/ NewSameVariant
    \/ EqualsSame
    \/ LessThanSame
    \/ HashSame

SpecSame == Init /\ [][NextSame]_vars

(* ---- vocabulary of the properties ------------------------------------- *)
\* the constructed addresses other than the sentinel
Addresses == Objects(heap) \ {NO_ADDRESS}

ClsOf(x) == Deref(heap, x).cls

SameVariant(a, b) == a \in Addresses /\ b \in Addresses /\ ClsOf(a) = ClsOf(b)

\* the field tuple of an address, a ThreadAddress's process by its fields
KeyOf(x) ==
    LET o == Deref(heap, x)
    IN CASE o.cls \in IntBacked -> <<o.value>>
         [] o.cls = "ProcessAddress" -> <<o.ppid, o.pid>>
         [] o.cls = "ThreadAddress" ->
                <<heap[o.process].ppid, heap[o.process].pid, o.tid>>
         [] o.cls = "DynamicAddress" -> <<o.id, o.return_address>>
         [] o.cls = "DNTokenOffsetAddress" -> <<o.token, o.offset>>

LexLess(s, t) ==
    \E i \in 1..Len(s) : s[i] < t[i] /\ \A j \in 1..(i - 1) : s[j] = t[j]

IsLess(a, b) == RichCompare(heap, a, b, "<") = Bool(TRUE)
IsEqual(a, b) == RichCompare(heap, a, b, "==") = Bool(TRUE)

IsCompare(op) == op \in {"==", "__eq__", "<"}

(* ---- C1 --------------------------------------------------------------- *)
\* C1: for every address x other than the sentinel, x's own equality with
\* NO_ADDRESS on the right gives False, and NO_ADDRESS == x gives True.
C1_AsymmetricWithNoAddress ==
    /\ (/\ last.op \in {"==", "__eq__"}
        /\ last.args[1] \in Addresses
        /\ last.args[2] = NO_ADDRESS) => last.res = Bool(FALSE)
    /\ (/\ last.op \in {"==", "__eq__"}
        /\ last.args[1] = NO_ADDRESS
        /\ last.args[2] \in Addresses) => last.res = Bool(TRUE)

(* ---- C2 --------------------------------------------------------------- *)
\* C2: equality of two addresses of different variants, neither the
\* sentinel, completes without raising and gives False.
C2_CrossVariantEqualsFalse ==
    (/\ last.op \in {"==", "__eq__"}
     /\ last.args[1] \in Addresses
     /\ last.args[2] \in Addresses
     /\ ClsOf(last.args[1]) # ClsOf(last.args[2])) => last.res = Bool(FALSE)

(* ---- C3 --------------------------------------------------------------- *)
\* C3: lessThan, hash and render never raise on constructed addresses,
\* the sentinel and operands of different variants included.
C3_ReadsNeverRaise ==
    (/\ last.op \in {"<", "hash", "repr"}
     /\ \A i \in 1..Len(last.args) : last.args[i] \in Objects(heap))
        => ~Raised(last.res)

(* ---- C4 --------------------------------------------------------------- *)
\* C4: within a variant, a < c is the lexicographic order of the field
\* tuples and a == c their equality; a < a is false, exactly one of a < c,
\* c < a, a == c holds, and a < c whenever a < b and b < c for some b.
C4_LexicographicStrictTotalOrder ==
    (/\ last.op \in {"<", "=="}
     /\ SameVariant(last.args[1], last.args[2])) =>
        LET a == last.args[1]
            c == last.args[2]
        IN /\ last.res = IF last.op = "<"
                         THEN Bool(LexLess(KeyOf(a), KeyOf(c)))
                         ELSE Bool(KeyOf(a) = KeyOf(c))
           /\ (last.op = "<" /\ a = c) => last.res = Bool(FALSE)
           /\ Cardinality({k \in 1..3 :
                  <<IsLess(a, c), IsLess(c, a), IsEqual(a, c)>>[k]}) = 1
           /\ (/\ last.op = "<"
               /\ \E b \in Addresses :
                      SameVariant(a, b) /\ IsLess(a, b) /\ IsLess(b, c))
                  => last.res = Bool(TRUE)

\* a chain a < b < c of ProcessAddresses in which the pid falls where the
\* ppid rises, and whose ends were just compared
C4_Witness ==
    \E a, b, c \in Addresses :
        /\ ClsOf(a) = "ProcessAddress" /\ SameVariant(a, b) /\ SameVariant(b, c)
        /\ IsLess(a, b) /\ IsLess(b, c)
        /\ KeyOf(b)[1] < KeyOf(c)[1] /\ KeyOf(b)[2] > KeyOf(c)[2]
        /\ last = [op |-> "<", args |-> <<a, c>>, res |-> Bool(TRUE)]

(* ---- C5 --------------------------------------------------------------- *)
\* the hash of the integer n
HashOfInt(n) == hash_method(heap, Num(n))

\* the hash the claim prescribes: the tuple hash of the fields equality
\* compares, in that order; the integer hash for the integer-backed variants
FieldHash(x) ==
    LET o == Deref(heap, x)
    IN CASE o.cls \in IntBacked -> HashOfInt(o.value)
         [] o.cls = "ProcessAddress" ->
                TupleHash(<<HashOfInt(o.ppid), HashOfInt(o.pid)>>)
         [] o.cls = "ThreadAddress" ->
                TupleHash(<<TupleHash(<<HashOfInt(heap[o.process].ppid),
                                        HashOfInt(heap[o.process].pid)>>),
                            HashOfInt(o.tid)>>)
         [] o.cls = "DynamicAddress" ->
                TupleHash(<<HashOfInt(o.id), HashOfInt(o.return_address)>>)
         [] o.cls = "DNTokenOffsetAddress" ->
                TupleHash(<<HashOfInt(o.token), HashOfInt(o.offset)>>)

\* C5: the hash of an address is the hash of the fields its equality
\* compares, in the same order, a ThreadAddress's process entering by
\* value; every same-variant address equal to it has the same hash.
C5_EqualImpliesEqualHash ==
    (last.op = "hash" /\ last.args[1] \in Addresses) =>
        /\ last.res = FieldHash(last.args[1])
        /\ \A b \in Addresses :
               (SameVariant(last.args[1], b) /\ IsEqual(last.args[1], b))
                   => hash_method(heap, b) = last.res

\* two equal ThreadAddresses of two distinct, equal ProcessAddress objects,
\* one of them just hashed
C5_Witness ==
    \E a, b \in Addresses :
        /\ ClsOf(a) = "ThreadAddress" /\ ClsOf(b) = "ThreadAddress"
        /\ heap[a.at].process # heap[b.at].process
        /\ IsEqual(a, b)
        /\ last.op = "hash" /\ last.args = <<a>>
        /\ last.res = hash_method(heap, b)

(* ---- C6 --------------------------------------------------------------- *)
\* C6: the sentinel's equality gives True against every address and
\* itself, its lessThan gives False against every address, and its hash is
\* the hash of the integer zero.
C6_NoAddressAbsorbs ==
    /\ (/\ last.op \in {"==", "__eq__"}
        /\ last.args[1] = NO_ADDRESS
        /\ last.args[2] \in Objects(heap)) => last.res = Bool(TRUE)
    /\ (/\ last.op = "<"
        /\ last.args[1] = NO_ADDRESS
        /\ last.args[2] \in Objects(heap)) => last.res = Bool(FALSE)
    /\ (last.op = "hash" /\ last.args[1] = NO_ADDRESS)
           => last.res = IntR(0) /\ last.res = HashOfInt(0)

\* the sentinel was just compared with a ThreadAddress
C6_Witness ==
    /\ last.op \in {"==", "<"}
    /\ last.args[1] = NO_ADDRESS
    /\ last.args[2] \in Addresses
    /\ ClsOf(last.args[2]) = "ThreadAddress"

(* ---- C7 --------------------------------------------------------------- *)
\* the violations of a constrained field, per variant
Invalid(cls, args) ==
    CASE cls \in {"AbsoluteVirtualAddress", "FileOffsetAddress"} -> args[1] < 0
      [] cls = "ProcessAddress" -> args[1] <= 0 \/ args[2] < 0
      [] cls = "ThreadAddress" -> args[2] < 0
      [] cls = "DynamicAddress" -> args[1] < 0 \/ args[2] < 0
      [] cls = "DNTokenOffsetAddress" -> args[2] < 0
      [] OTHER -> FALSE

\* C7: a construction fails, with the validation error and without
\* yielding an object, exactly when a constrained field is violated;
\* otherwise it yields the new object.
C7_ConstructionFailsIffInvalid ==
    [][last'.op \in Variants =>
          IF Invalid(last'.op, last'.args)
          THEN last'.res = Raise("AssertionError") /\ heap' = heap
          ELSE /\ last'.res = Ref(Len(heap'))
               /\ heap'[Len(heap')].cls = last'.op
               /\ Len(heap') = Len(heap) + 1]_vars

\* ProcessAddress(0, 0) was just refused and FileOffsetAddress(0) exists
C7_Witness ==
    /\ last = [op |-> "ProcessAddress", args |-> <<0, 0>>,
               res |-> Raise("AssertionError")]
    /\ \E x \in Addresses : Deref(heap, x) = [cls |-> "FileOffsetAddress", value |-> 0]

(* ---- C8 --------------------------------------------------------------- *)
\* C8: no read changes a field of any object, and the result of a call
\* stays the result of the same call on the same operands whatever other
\* calls and constructions come between.
C8_ReadsLeaveFieldsAlone ==
    /\ [](last.op \in ReadOps => last.res = Apply(heap, last.op, last.args))
    /\ [][/\ \A i \in 1..Len(heap) : i <= Len(heap') /\ heap'[i] = heap[i]
          /\ last'.op \in ReadOps => heap' = heap]_vars

\* a ThreadAddress was just hashed, its ProcessAddress still as constructed
C8_Witness ==
    /\ last.op = "hash"
    /\ last.args[1] \in Addresses
    /\ ClsOf(last.args[1]) = "ThreadAddress"
    /\ heap[heap[last.args[1].at].process].cls = "ProcessAddress"

(* ---- C9 --------------------------------------------------------------- *)
\* C9: the integer conversion of a DNTokenOffsetAddress is token + offset,
\* and two such addresses with the same index and different fields are
\* unequal and ordered by (token, offset).
C9_IndexIsTokenPlusOffset ==
    /\ DNTokenOffsetAddress_index(
           [cls |-> "DNTokenOffsetAddress", token |-> 100663297, offset |-> 16])
         = IntR(100663313)
    /\ (/\ last.op = "index"
        /\ last.args[1] \in Addresses
        /\ ClsOf(last.args[1]) = "DNTokenOffsetAddress")
           => last.res = IntR(KeyOf(last.args[1])[1] + KeyOf(last.args[1])[2])
    /\ (/\ IsCompare(last.op)
        /\ SameVariant(last.args[1], last.args[2])
        /\ ClsOf(last.args[1]) = "DNTokenOffsetAddress"
        /\ index_method(heap, last.args[1]) = index_method(heap, last.args[2])
        /\ KeyOf(last.args[1]) # KeyOf(last.args[2]))
           => last.res = IF last.op = "<"
                         THEN Bool(LexLess(KeyOf(last.args[1]), KeyOf(last.args[2])))
                         ELSE Bool(FALSE)

\* two DNTokenOffsetAddresses of equal index, the first less than the second
C9_Witness ==
    /\ last.op = "<" /\ last.res = Bool(TRUE)
    /\ SameVariant(last.args[1], last.args[2])
    /\ ClsOf(last.args[1]) = "DNTokenOffsetAddress"
    /\ index_method(heap, last.args[1]) = index_method(heap, last.args[2])

(* ---- C10 -------------------------------------------------------------- *)
IntLike(x) == x \in Operands(heap) /\ IsInt(Deref(heap, x))

\* C10: an integer-backed address compares, orders and hashes as the
\* plain integer of its value, against plain integers and against
\* integer-backed addresses of any variant.
C10_IntegerBackedActAsInt ==
    /\ (/\ IsCompare(last.op)
        /\ IntLike(last.args[1])
        /\ IntLike(last.args[2]))
           => last.res = IF last.op = "<"
                         THEN Bool(Deref(heap, last.args[1]).value
                                     < Deref(heap, last.args[2]).value)
                         ELSE Bool(Deref(heap, last.args[1]).value
                                     = Deref(heap, last.args[2]).value)
    /\ (last.op = "hash" /\ IntLike(last.args[1]))
           => last.res = HashOfInt(Deref(heap, last.args[1]).value)

\* an AbsoluteVirtualAddress was just found equal to a FileOffsetAddress
C10_Witness ==
    /\ last.op = "==" /\ last.res = Bool(TRUE)
    /\ last.args[1] \in Addresses /\ last.args[2] \in Addresses
    /\ ClsOf(last.args[1]) = "AbsoluteVirtualAddress"
    /\ ClsOf(last.args[2]) = "FileOffsetAddress"

====
